---- MODULE Spec2Model ----
(***************************************************************************)
(* Model of neo4j_mcp.connection.Neo4jConnection: the driver handle and    *)
(* its lifecycle (connect / close), the session context manager, read and  *)
(* write query execution, schema introspection and the connectivity probe. *)
(*                                                                         *)
(* The neo4j driver is the environment: whether creating a driver, the     *)
(* connectivity check, run, record iteration and consume succeed or raise  *)
(* is chosen nondeterministically.  Every `await` of driver I/O is a       *)
(* separate step, so a call is a small state machine held in call[t].      *)
(***************************************************************************)
EXTENDS Integers, Sequences, FiniteSets, TLC

VARIABLES
    config,     \* Neo4jConnection.config: the Neo4jConfig it was constructed with
    driver,     \* Neo4jConnection._driver: 0 is None, else the id of a driver object
    nDrivers,   \* number of driver objects GraphDatabase.driver has returned so far
    verified,   \* driver objects whose verify_connectivity() has succeeded
    closes,     \* closes[d]: how many times driver d's close() has been called
    call,       \* call[t]: the call task t is executing, or the one it last finished
    norm        \* a value handed to _serialize_neo4j_value, and what came back

vars == <<config, driver, nDrivers, verified, closes, call, norm>>

---------------------------------------------------------------------------
(* Bounds of the model *)

MaxDrivers == 2      \* driver objects created in one behaviour
MaxRows == 2         \* records one query result yields

AllTasks == {"t1", "t2", "app"}
NoDriver == 0
DriverIds == 1..MaxDrivers

---------------------------------------------------------------------------
(* Python values *)

\* Optional[X]: <<>> is None, <<x>> is the value x
None == <<>>
Some(x) == <<x>>
EmptyDict == <<>>

\* `a or b` on an Optional whose payload is falsy when empty ("" or {})
OrElse(opt, default) == IF opt # None /\ opt[1] # <<>> THEN opt[1] ELSE default

\* str: a sequence of characters; strip() removes leading and trailing whitespace
Whitespace == {" ", "\t", "\n"}

RECURSIVE LStrip(_)
LStrip(s) == IF s # <<>> /\ Head(s) \in Whitespace THEN LStrip(Tail(s)) ELSE s

RECURSIVE RStrip(_)
RStrip(s) ==
    IF s # <<>> /\ s[Len(s)] \in Whitespace THEN RStrip(SubSeq(s, 1, Len(s) - 1)) ELSE s

Strip(s) == RStrip(LStrip(s))

\* Values a record column can hold: a tagged variant
Scalar(x) == [kind |-> "scalar", v |-> x]
ListV(items) == [kind |-> "list", items |-> items]
TupleV(items) == [kind |-> "tuple", items |-> items]
MapV(m) == [kind |-> "map", m |-> m]
NodeV(props, labels, id, eid) ==
    [kind |-> "node", props |-> props, labels |-> labels, id |-> id, element_id |-> eid]
RelV(props, type, id, eid) ==
    [kind |-> "rel", props |-> props, type |-> type, id |-> id, element_id |-> eid]
PathV(nodes, rels) == [kind |-> "path", nodes |-> nodes, relationships |-> rels]

\* hasattr(value, name) for neo4j.graph.Node / neo4j.graph.Relationship
HasAttr(value, name) ==
    \/ value.kind = "node" /\ name \in {"labels", "id", "element_id"}
    \/ value.kind = "rel" /\ name \in {"type", "id", "element_id"}

\* dict(value) followed by the four reserved-key assignments
EntityDict(value) ==
    LET reserved == {k \in {"_labels", "_type", "_id", "_element_id"} :
                        \/ k = "_labels" /\ HasAttr(value, "labels")
                        \/ k = "_type" /\ HasAttr(value, "type")
                        \/ k = "_id" /\ HasAttr(value, "id")
                        \/ k = "_element_id" /\ HasAttr(value, "element_id")}
    IN  [k \in DOMAIN value.props \cup reserved |->
            IF k \notin reserved THEN value.props[k]
            ELSE IF k = "_labels" THEN ListV(value.labels)
            ELSE IF k = "_type" THEN Scalar(value.type)
            ELSE IF k = "_id" THEN Scalar(value.id)
            ELSE Scalar(value.element_id)]

\* (mutant) a comprehension that wraps its result in one more list
SeqResult_Wrapped(items) == ListV(<<ListV(items)>>)

\* (mutant) a comprehension that yields its items last to first
SeqResult_Reversed(items) ==
    ListV([i \in DOMAIN items |-> items[Len(items) + 1 - i]])

\* `[... for item in value]`: a new list of the items, in order
SeqResult(items) == ListV(items)

\* (mutant) a path dictionary that leaves out the node the path starts at
PathDict_NoStart(nodes, relationships) ==
    MapV([nodes |-> SeqResult(Tail(nodes)), relationships |-> SeqResult(relationships)])

\* `{"nodes": [...], "relationships": [...]}`
PathDict(nodes, relationships) ==
    MapV([nodes |-> SeqResult(nodes), relationships |-> SeqResult(relationships)])

RECURSIVE _serialize_neo4j_value(_)
_serialize_neo4j_value(value) ==
    IF value.kind \in {"node", "rel"} THEN MapV(EntityDict(value))
    ELSE IF value.kind = "path" THEN
        PathDict([i \in DOMAIN value.nodes |-> _serialize_neo4j_value(value.nodes[i])],
                 [i \in DOMAIN value.relationships |->
                        _serialize_neo4j_value(value.relationships[i])])
    ELSE IF value.kind \in {"list", "tuple"} THEN
        SeqResult([i \in DOMAIN value.items |-> _serialize_neo4j_value(value.items[i])])
    ELSE IF value.kind = "map" THEN
        MapV([k \in DOMAIN value.m |-> _serialize_neo4j_value(value.m[k])])
    ELSE value

\* no value has been handed over
NoNorm == [in |-> Scalar("null"), out |-> <<>>]

---------------------------------------------------------------------------
(* Exceptions: a type and a message (a sequence of text pieces) *)

Err(type, msg) == [type |-> type, msg |-> msg]
NoError == Err("none", <<>>)

\* isinstance(e, Neo4jError): AuthError is a Neo4jError, ServiceUnavailable is not
IsNeo4jError(e) == e.type \in {"Neo4jError", "AuthError"}
\* isinstance(e, Exception): asyncio.CancelledError is a BaseException only
IsException(e) == e.type # "CancelledError"

CancelledError == Err("CancelledError", <<>>)
EmptyQueryError == Err("ValueError", <<"Query cannot be empty">>)
NotConnectedError == Err("RuntimeError", <<"Not connected to Neo4j. Call connect() first.">>)

---------------------------------------------------------------------------
(* Neo4jConfig *)

\* The constructor's inputs before validation. `given` names the fields passed
\* as keyword arguments; every other field has the value its default_factory
\* returned (the NEO4J_* environment variable, or the hard default).
RawConfig(given, host, port, http_port, username, password, database, uri_scheme, encrypted) ==
    [status |-> "raw", given |-> given, host |-> host, port |-> port,
     http_port |-> http_port, username |-> username, password |-> password,
     database |-> database, uri_scheme |-> uri_scheme, encrypted |-> encrypted,
     errors |-> {},     \* the ValueErrors the validators raised
     uris |-> <<>>]     \* the values bolt_uri has returned so far

MinPort == 1
MaxPort == 65535

\* validate_port: TRUE when the validator returns, FALSE when it raises ValueError
validate_port(v) == MinPort <= v /\ v <= MaxPort

\* a scheme is a sequence of pieces: "bolt+s" is <<"bolt", "+s">>
valid_schemes == {<<"bolt">>, <<"bolt", "+s">>, <<"neo4j">>, <<"neo4j", "+s">>}

\* validate_uri_scheme: TRUE when the validator returns, FALSE when it raises
validate_uri_scheme(v) == v \in valid_schemes

\* The fields a @validator is run on: pydantic runs a validator on a value that
\* was supplied, not on a default (no always=True, no validate_all)
Validated(raw) == raw.given

\* Neo4jConfig(...): the validators of port, http_port and uri_scheme; a raising
\* validator makes the constructor raise and no object is built
Neo4jConfig(raw) ==
    LET errors ==
            {<<f, "Port must be between 1 and 65535">> :
                f \in {g \in {"port", "http_port"} \cap Validated(raw) :
                            ~validate_port(raw[g])}}
            \cup {<<f, "URI scheme must be one of">> :
                    f \in {g \in {"uri_scheme"} \cap Validated(raw) :
                                ~validate_uri_scheme(raw[g])}}
    IN  [raw EXCEPT !.status = IF errors = {} THEN "built" ELSE "rejected",
                    !.errors = errors]

\* (mutant) a bolt_uri that never finds the marker
EndsWithSecure_Never(scheme) == FALSE

\* scheme.endswith("+s")
EndsWithSecure(scheme) == scheme # <<>> /\ scheme[Len(scheme)] = "+s"

\* the bolt_uri property
bolt_uri(cfg) ==
    LET scheme == IF cfg.encrypted /\ ~EndsWithSecure(cfg.uri_scheme)
                  THEN cfg.uri_scheme \o <<"+s">>
                  ELSE cfg.uri_scheme
    IN  scheme \o <<"://">> \o cfg.host \o <<":", ToString(cfg.port)>>

\* the http_uri property
http_uri(cfg) ==
    <<IF cfg.encrypted THEN "https" ELSE "http", "://">> \o cfg.host
        \o <<":", ToString(cfg.http_port)>>

\* (mutant) an auth_tuple that needs the username only
auth_tuple_UsernameOnly(cfg) ==
    IF cfg.username # None /\ cfg.username[1] # <<>>
    THEN Some(<<cfg.username[1], IF cfg.password = None THEN <<>> ELSE cfg.password[1]>>)
    ELSE None

\* the auth_tuple property: `if self.username and self.password`
auth_tuple(cfg) ==
    IF /\ cfg.username # None /\ cfg.username[1] # <<>>
       /\ cfg.password # None /\ cfg.password[1] # <<>>
    THEN Some(<<cfg.username[1], cfg.password[1]>>)
    ELSE None

\* the configuration built from the field defaults, with no environment set
DefaultConfig ==
    Neo4jConfig(RawConfig({}, <<"localhost">>, 7687, 7474, None, None, <<"neo4j">>,
                          <<"bolt">>, FALSE))

\* self.config.database, self.config.bolt_uri, self.config.auth_tuple
ConfigDatabase == config.database
ConfigBoltUri == bolt_uri(config)
ConfigAuthTuple == auth_tuple(config)

---------------------------------------------------------------------------
(* Driver library (the environment) *)

\* Access mode of a session opened without default_access_mode: the driver's
\* default, which is write access
DriverDefaultAccessMode == "WRITE"

\* Keyword arguments session() passes to driver.session()
SessionKwargs(db_name) == [database |-> db_name]

AccessModeOf(kwargs) ==
    IF "default_access_mode" \in DOMAIN kwargs THEN kwargs.default_access_mode
    ELSE DriverDefaultAccessMode

\* What GraphDatabase.driver() may raise, and what verify_connectivity() may raise
DriverCreateErrors == {Err("ValueError", <<"bad uri">>)}
VerifyErrors ==
    {Err("AuthError", <<"Auth failed">>),
     Err("ServiceUnavailable", <<"refused">>),
     Err("ServiceUnavailable", <<>>),
     Err("OSError", <<"tls">>)}

\* What run(), record iteration and consume() may raise
QueryErrors == {Err("Neo4jError", <<"syntax">>), Err("ServiceUnavailable", <<"lost">>)}

\* Result summaries consume() may return
CounterNames ==
    {"nodes_created", "nodes_deleted", "relationships_created",
     "relationships_deleted", "properties_set", "labels_added", "labels_removed",
     "indexes_added", "indexes_removed", "constraints_added", "constraints_removed"}

ZeroCounters == [k \in CounterNames |-> 0]
Summary(counters) ==
    [counters |-> counters, query_type |-> "w",
     result_available_after |-> 1, result_consumed_after |-> 2]
NoSummary == Summary(ZeroCounters)

Summaries ==
    {Summary(ZeroCounters),
     Summary([ZeroCounters EXCEPT !.nodes_created = 1, !.properties_set = 2]),
     Summary([nodes_created |-> 1, nodes_deleted |-> 2, relationships_created |-> 3,
              relationships_deleted |-> 4, properties_set |-> 5, labels_added |-> 6,
              labels_removed |-> 7, indexes_added |-> 8, indexes_removed |-> 9,
              constraints_added |-> 10, constraints_removed |-> 11])}

\* Records a caller's query may return
PersonNode == NodeV([name |-> Scalar("Alice")], <<Scalar("Person")>>, "7", "4:x:7")
RowSet == {[name |-> Scalar("Alice"), age |-> Scalar("30")], [n |-> PersonNode]}

RECURSIVE SeqsUpTo(_, _)
SeqsUpTo(S, n) ==
    IF n = 0 THEN {<<>>}
    ELSE LET shorter == SeqsUpTo(S, n - 1)
         IN  shorter \cup {Append(s, x) : s \in {r \in shorter : Len(r) = n - 1}, x \in S}

Streams == SeqsUpTo(RowSet, MaxRows)

---------------------------------------------------------------------------
(* Inputs of the callers *)

\* query strings: empty, whitespace only, and two that are not blank
Queries == {<<>>, <<" ">>, <<" ", "\t", " ">>, <<"M">>, <<" ", "M", "\n">>}
ParamInputs == {None, Some(EmptyDict), Some([name |-> Scalar("Alice")])}
DbInputs == {None, Some(<<"movies">>)}

---------------------------------------------------------------------------
(* The call record of a task *)

NoSession == [driver |-> NoDriver, database |-> <<>>, mode |-> "none"]

NewCall(op, query, parameters, database, drv) ==
    [op |-> op, pc |-> "start", outcome |-> "none", error |-> NoError,
     query |-> query, parameters |-> parameters, database |-> database,
     drvAtCall |-> drv,     \* _driver when the call was made
     drv |-> NoDriver,      \* the driver object the call is awaiting on
     cause |-> NoError,     \* the exception first raised inside the call, as raised
     causeAt |-> "none",    \* the step that raised it
     life |-> "none",       \* app_lifespan: where the lifespan coroutine is
     finals |-> 0,          \* app_lifespan: times its finally clause called close()
     exit |-> "none",       \* app_lifespan: why the try block was left
     opens |-> 0,           \* GraphDatabase.driver() calls made by this call
     args |-> <<>>,         \* the arguments of those calls, in order
     checks |-> 0,          \* verify_connectivity() calls made by this call
     closeCalls |-> 0,      \* driver.close() calls made by this call
     session |-> NoSession, \* the session the call holds
     opened |-> 0,          \* sessions this call has opened
     released |-> 0,        \* sessions this call has released
     runs |-> <<>>,         \* the session.run() calls made, in order
     stream |-> <<>>,       \* records the result has not yielded yet
     yielded |-> <<>>,      \* records the result has yielded
     exhausted |-> FALSE,   \* the result iteration ran to its end
     records |-> <<>>,      \* execute_read_query's `records`
     summary |-> NoSummary, \* what consume() returned
     stats |-> <<>>,        \* execute_write_query's `stats`
     stage |-> 0,           \* get_schema: the sub-query being executed (1..5)
     issued |-> <<>>,       \* get_schema: the sub-queries issued, in order
     failed |-> {},         \* get_schema: the sub-queries whose failure was absorbed
     found |-> <<>>,        \* get_schema: labels, relationship_types, ... so far
     answers |-> <<>>,      \* get_schema: the records each sub-query yielded
     schema |-> <<>>,       \* get_schema's `schema`
     components |-> <<>>,   \* test_connection's `components`
     info |-> <<>>,         \* test_connection's returned record
     tool |-> "none",       \* the server tool the call was made through
     read_only |-> None]    \* run_cypher_query's read_only argument, if given

IdleCall == [NewCall("none", <<>>, None, None, NoDriver) EXCEPT !.pc = "idle"]

Return(c) == [c EXCEPT !.pc = "done", !.outcome = "ok"]
Raise(c, e) == [c EXCEPT !.pc = "done", !.outcome = "error", !.error = e]

\* the call has ended; it returned; it raised
Finished(c) == c.pc = "done"
Succeeded(c) == c.pc = "done" /\ c.outcome = "ok"
Failed(c) == c.pc = "done" /\ c.outcome = "error"

\* the exception e is raised at step `at` of the call
Caused(c, e, at) == [c EXCEPT !.cause = e, !.causeAt = at]

\* (mutant) a Connection that admits one call at a time
Ready_Serialized(t) == \A u \in AllTasks : call[u].pc \in {"idle", "done"}

\* the task t is not inside a call: it may make one
Ready(t) == call[t].pc \in {"idle", "done"}

\* connect() and close() are not invoked concurrently with each other (the
\* owning application's single-owner lifecycle)
LifecycleIdle == \A t \in AllTasks : call[t].pc \notin {"verify", "closing"}

---------------------------------------------------------------------------
(* connect() *)

\* (mutant) connect() with the catch-all except clause only
ConnectError_Generic(e) ==
    Err("ConnectionError", <<"Failed to connect to Neo4j: ">> \o e.msg)

\* The three except clauses of connect()
ConnectError(e) ==
    IF e.type = "AuthError" THEN
        Err("ConnectionError", <<"Neo4j authentication failed: ">> \o e.msg)
    ELSE IF e.type = "ServiceUnavailable" THEN
        Err("ConnectionError",
            <<"Neo4j service unavailable at ">> \o ConfigBoltUri \o <<": ">> \o e.msg)
    ELSE Err("ConnectionError", <<"Failed to connect to Neo4j: ">> \o e.msg)

---------------------------------------------------------------------------
(* close() *)

\* (mutant) close() that acts only on a handle that passed its check
CloseGuard_VerifiedOnly(drv) == drv # NoDriver /\ drv \in verified

\* `if self._driver:`
CloseGuard(drv) == drv # NoDriver

\* (mutant) close() that forgets to reset the handle
DriverAfterClose_Kept(drv) == drv

\* `self._driver = None` after the awaited driver.close()
DriverAfterClose(drv) == NoDriver

\* close() up to its await: `await self._driver.close()` when a handle is present
CloseBegin(t, c) ==
    /\ IF CloseGuard(driver)
       THEN /\ closes' = [closes EXCEPT ![driver] = @ + 1]
            /\ call' = [call EXCEPT ![t] = [c EXCEPT !.pc = "closing", !.drv = driver,
                                                     !.closeCalls = @ + 1]]
       ELSE /\ call' = [call EXCEPT ![t] = Return(c)]
            /\ UNCHANGED closes
    /\ UNCHANGED <<norm, config, driver, nDrivers, verified>>

CloseCall(t) ==
    /\ Ready(t)
    /\ LifecycleIdle
    /\ CloseBegin(t, NewCall("close", <<>>, None, None, driver))

CloseEnd(t) ==
    /\ call[t].pc = "closing"
    /\ driver' = DriverAfterClose(driver)
    /\ call' = [call EXCEPT ![t] = Return(call[t])]
    /\ UNCHANGED <<norm, config, nDrivers, verified, closes>>

\* is_connected
is_connected == driver # NoDriver

---------------------------------------------------------------------------
(* session(): the async context manager *)

\* (mutant) session() without its connected check
SessionGuardFails_Never(drv) == FALSE

\* `if not self._driver:`
SessionGuardFails(drv) == drv = NoDriver

\* `db_name = database or self.config.database`
ResolveDatabase(database) == OrElse(database, ConfigDatabase)

\* `async with self._driver.session(database=db_name) as session:` entered
SessionEnter(c, drv, database) ==
    LET kwargs == SessionKwargs(ResolveDatabase(database))
    IN  [c EXCEPT !.session = [driver |-> drv, database |-> kwargs.database,
                               mode |-> AccessModeOf(kwargs)],
                  !.opened = @ + 1]

\* (mutant) a session that is never closed
SessionExit_Leak(c) == c

\* the same `async with` left, by return or by exception
SessionExit(c) ==
    IF c.session = NoSession THEN c
    ELSE [c EXCEPT !.session = NoSession, !.released = @ + 1]

\* A caller using the context manager directly: `async with conn.session(db): pass`
SessionCall(t, database) ==
    /\ Ready(t)
    /\ LET c == NewCall("session", <<>>, None, database, driver)
       IN  call' = [call EXCEPT ![t] =
                IF SessionGuardFails(driver) THEN Raise(c, NotConnectedError)
                ELSE Return(SessionExit(SessionEnter(c, driver, database)))]
    /\ UNCHANGED <<norm, config, driver, nDrivers, verified, closes>>

---------------------------------------------------------------------------
(* execute_read_query / execute_write_query *)

\* (mutant) validation that forgets strip()
IsBlank_NoStrip(query) == query = <<>>

\* `if not query.strip():`
IsBlank(query) == Strip(query) = <<>>

\* (mutant) the generic handler raising its own message without the cause's
ExecHandler_Bare(e) ==
    IF ~IsException(e) THEN e
    ELSE IF IsNeo4jError(e) THEN e
    ELSE Err("Neo4jError", <<"Query execution failed: ">>)

\* The two except clauses of execute_read_query and execute_write_query; a
\* BaseException that is no Exception passes through both
ExecHandler(e) ==
    IF ~IsException(e) THEN e
    ELSE IF IsNeo4jError(e) THEN e
    ELSE Err("Neo4jError", <<"Query execution failed: ">> \o e.msg)

\* the dictionary built from one record
RecordDict(record) == [key \in DOMAIN record |-> _serialize_neo4j_value(record[key])]

\* (mutant) records collected in reverse
AppendRecord_Front(records, record_dict) == <<record_dict>> \o records

\* `records.append(record_dict)`
AppendRecord(records, record_dict) == Append(records, record_dict)

\* (mutant) two counters read from the wrong field of the summary
WriteStats_Swapped(summary) ==
    [nodes_created |-> summary.counters.nodes_deleted,
     nodes_deleted |-> summary.counters.nodes_created,
     relationships_created |-> summary.counters.relationships_created,
     relationships_deleted |-> summary.counters.relationships_deleted,
     properties_set |-> summary.counters.properties_set,
     labels_added |-> summary.counters.labels_added,
     labels_removed |-> summary.counters.labels_removed,
     indexes_added |-> summary.counters.indexes_added,
     indexes_removed |-> summary.counters.indexes_removed,
     constraints_added |-> summary.counters.constraints_added,
     constraints_removed |-> summary.counters.constraints_removed,
     query_type |-> summary.query_type,
     result_available_after |-> summary.result_available_after,
     result_consumed_after |-> summary.result_consumed_after]

\* the `stats` dictionary built from the summary
WriteStats(summary) ==
    [nodes_created |-> summary.counters.nodes_created,
     nodes_deleted |-> summary.counters.nodes_deleted,
     relationships_created |-> summary.counters.relationships_created,
     relationships_deleted |-> summary.counters.relationships_deleted,
     properties_set |-> summary.counters.properties_set,
     labels_added |-> summary.counters.labels_added,
     labels_removed |-> summary.counters.labels_removed,
     indexes_added |-> summary.counters.indexes_added,
     indexes_removed |-> summary.counters.indexes_removed,
     constraints_added |-> summary.counters.constraints_added,
     constraints_removed |-> summary.counters.constraints_removed,
     query_type |-> summary.query_type,
     result_available_after |-> summary.result_available_after,
     result_consumed_after |-> summary.result_consumed_after]

---------------------------------------------------------------------------
(* get_schema: five execute_read_query calls in sequence *)

SchemaQuery ==
    <<<<"\n", " ", "CALL db.labels() YIELD label RETURN collect(label) as labels", "\n">>,
      <<"\n", " ", "CALL db.relationshipTypes() YIELD relationshipType RETURN collect(relationshipType) as relationshipTypes", "\n">>,
      <<"\n", " ", "CALL db.propertyKeys() YIELD propertyKey RETURN collect(propertyKey) as propertyKeys", "\n">>,
      <<"\n", " ", "SHOW CONSTRAINTS YIELD name, type, labelsOrTypes, properties RETURN collect({...}) as constraints", "\n">>,
      <<"\n", " ", "SHOW INDEXES YIELD name, type, labelsOrTypes, properties RETURN collect({...}) as indexes", "\n">>>>

SchemaColumn == <<"labels", "relationshipTypes", "propertyKeys", "constraints", "indexes">>

\* (mutant) only the indexes query is guarded
AbsorbedStages_IndexesOnly == {5}

\* (mutant) the property-keys query is guarded as well
AbsorbedStages_WithPropertyKeys == {3, 4, 5}

\* the sub-queries inside their own `try: ... except Exception:` (constraints, indexes)
AbsorbedStages == {4, 5}

EmptyList == ListV(<<>>)
NoFound == [k \in 1..5 |-> EmptyList]

\* the `schema` dictionary
SchemaDict(found, database) ==
    [labels |-> found[1], relationshipTypes |-> found[2], propertyKeys |-> found[3],
     constraints |-> found[4], indexes |-> found[5],
     database |-> ResolveDatabase(database)]

\* the outer `except Exception` of get_schema
SchemaError(e) == Err("Neo4jError", <<"Failed to retrieve schema: ">> \o e.msg)

RECURSIVE SchemaIssue(_, _, _)
RECURSIVE SchemaFailed(_, _, _)
RECURSIVE ReadRaised(_, _, _)
RECURSIVE ExecuteReadEnter(_, _)

\* an exception leaves execute_read_query
ReadRaised(c, e, drv) ==
    IF c.op = "schema" THEN SchemaFailed(c, e, drv) ELSE Raise(c, e)

\* execute_read_query from its first line to `await session.run(...)`
ExecuteReadEnter(c, drv) ==
    IF IsBlank(c.query) THEN
        ReadRaised(Caused(c, EmptyQueryError, "validate"), EmptyQueryError, drv)
    ELSE IF SessionGuardFails(drv) THEN
        ReadRaised(Caused(c, NotConnectedError, "session"),
                   ExecHandler(NotConnectedError), drv)
    ELSE [SessionEnter(c, drv, c.database) EXCEPT !.pc = "run"]

\* an exception raised inside execute_read_query's `async with` body
ReadFailed(c, e, drv) == ReadRaised(SessionExit(c), ExecHandler(e), drv)

\* sub-query c.stage of get_schema raised e
SchemaFailed(c, e, drv) ==
    IF ~IsException(e) THEN Raise(c, e)
    ELSE IF c.stage \in AbsorbedStages THEN
        SchemaIssue([c EXCEPT !.found[c.stage] = EmptyList, !.failed = @ \cup {c.stage}],
                    c.stage + 1, drv)
    ELSE Raise(c, SchemaError(e))

\* get_schema goes on to sub-query k, or builds its result after the fifth
SchemaIssue(c, k, drv) ==
    IF k > 5 THEN Return([c EXCEPT !.schema = SchemaDict(c.found, c.database)])
    ELSE ExecuteReadEnter([c EXCEPT !.stage = k, !.issued = Append(@, k),
                                    !.cause = NoError, !.causeAt = "none",
                                    !.query = SchemaQuery[k], !.parameters = None,
                                    !.runs = <<>>, !.stream = <<>>, !.yielded = <<>>,
                                    !.exhausted = FALSE, !.records = <<>>], drv)

\* `x_result[0][column] if x_result else []` of sub-query c.stage, then the next one
SchemaGot(c, drv) ==
    LET col == SchemaColumn[c.stage]
        got == [c EXCEPT !.answers[c.stage] = c.yielded]
    IN  IF c.records = <<>> THEN
            SchemaIssue([got EXCEPT !.found[c.stage] = EmptyList], c.stage + 1, drv)
        ELSE IF col \in DOMAIN c.records[1] THEN
            SchemaIssue([got EXCEPT !.found[c.stage] = c.records[1][col]], c.stage + 1, drv)
        ELSE SchemaFailed(Caused(got, Err("KeyError", <<col>>), "column"),
                          Err("KeyError", <<col>>), drv)

\* execute_read_query returns its records
ReadReturned(c, drv) ==
    IF c.op = "schema" THEN SchemaGot(c, drv) ELSE Return(c)

---------------------------------------------------------------------------
(* test_connection *)

ComponentsQuery ==
    <<"\n", " ", "CALL dbms.components() YIELD name, versions, edition RETURN name, versions, edition", "\n">>

\* the record returned when everything succeeded
ConnectedInfo(components) ==
    [connected |-> TRUE, uri |-> ConfigBoltUri, database |-> ConfigDatabase,
     auth_enabled |-> ConfigAuthTuple # None, components |-> components]

\* the record returned by `except Exception as e`
FailedInfo(e) ==
    [connected |-> FALSE, uri |-> ConfigBoltUri, database |-> ConfigDatabase,
     error |-> e.msg]

\* (mutant) test_connection without its except clause
TestFailed_Raises(c, e) == Raise(SessionExit(c), e)

\* an exception raised anywhere inside test_connection's try
TestFailed(c, e) ==
    IF IsException(e) THEN Return([SessionExit(c) EXCEPT !.info = FailedInfo(e)])
    ELSE Raise(SessionExit(c), e)

\* test_connection from `async with self.session()` to `await session.run(...)`
TestEnter(c, drv) ==
    IF SessionGuardFails(drv) THEN
        TestFailed(Caused(c, NotConnectedError, "session"), NotConnectedError)
    ELSE [SessionEnter([c EXCEPT !.query = ComponentsQuery], drv, None) EXCEPT !.pc = "run"]

\* the dictionary appended to `components` for one record
ComponentKeys == {"name", "versions", "edition"}
ComponentDict(record) == [k \in ComponentKeys |-> record[k]]

---------------------------------------------------------------------------
(* What the server answers *)

SchemaStreams(k) ==
    {<<>>, <<[c \in {SchemaColumn[k]} |-> ListV(<<Scalar("Person")>>)]>>}

Kernel == [name |-> Scalar("Neo4j Kernel"), versions |-> ListV(<<Scalar("5.0")>>),
           edition |-> Scalar("community")]
ComponentStreams == {<<>>, <<Kernel>>, <<[name |-> Scalar("Bloom")], Kernel>>}

StreamsFor(c) ==
    IF c.op = "schema" THEN SchemaStreams(c.stage)
    ELSE IF c.op = "test" THEN ComponentStreams
    ELSE Streams

---------------------------------------------------------------------------
(* The calls *)

\* an exception raised inside connect()'s try: one of the three except clauses
\* raises ConnectionError, to the caller or into test_connection's try
ConnectFailed(c, e) ==
    IF c.op = "test" THEN TestFailed(c, ConnectError(e)) ELSE Raise(c, ConnectError(e))

\* the arguments connect() passes to GraphDatabase.driver
DriverArgs ==
    [uri |-> ConfigBoltUri, auth |-> ConfigAuthTuple, encrypted |-> config.encrypted]

\* connect() up to its await: GraphDatabase.driver(...) raises, or its result is
\* assigned to self._driver and verify_connectivity() is awaited
ConnectBegin(t, c) ==
    LET c1 == [c EXCEPT !.opens = @ + 1, !.args = Append(@, DriverArgs)]
    IN  \/ \E e \in DriverCreateErrors :
            /\ call' = [call EXCEPT ![t] = ConnectFailed(Caused(c1, e, "create"), e)]
            /\ UNCHANGED <<norm, config, driver, nDrivers, verified, closes>>
        \/ /\ nDrivers < MaxDrivers
           /\ nDrivers' = nDrivers + 1
           /\ driver' = nDrivers + 1
           /\ call' = [call EXCEPT ![t] = [c1 EXCEPT !.pc = "verify", !.checks = @ + 1,
                                                     !.drv = nDrivers + 1]]
           /\ UNCHANGED <<norm, config, verified, closes>>

ConnectCall(t) ==
    /\ Ready(t)
    /\ LifecycleIdle
    /\ ConnectBegin(t, NewCall("connect", <<>>, None, None, driver))

\* execute_read_query from its first line to `await session.run(...)`
ExecuteReadStart(c) == ExecuteReadEnter(c, driver)

ReadCall(t, query, parameters, database) ==
    /\ Ready(t)
    /\ call' = [call EXCEPT ![t] =
            ExecuteReadStart(NewCall("read", query, parameters, database, driver))]
    /\ UNCHANGED <<norm, config, driver, nDrivers, verified, closes>>

\* execute_write_query from its first line to `await session.run(...)`
ExecuteWriteStart(c) ==
    IF IsBlank(c.query) THEN
        Raise(Caused(c, EmptyQueryError, "validate"), EmptyQueryError)
    ELSE IF SessionGuardFails(driver) THEN
        Raise(Caused(c, NotConnectedError, "session"), ExecHandler(NotConnectedError))
    ELSE [SessionEnter(c, driver, c.database) EXCEPT !.pc = "run"]

WriteCall(t, query, parameters, database) ==
    /\ Ready(t)
    /\ call' = [call EXCEPT ![t] =
            ExecuteWriteStart(NewCall("write", query, parameters, database, driver))]
    /\ UNCHANGED <<norm, config, driver, nDrivers, verified, closes>>

\* get_schema from its first line to the first sub-query's `await`
GetSchemaStart(c) ==
    SchemaIssue([c EXCEPT !.found = NoFound, !.answers = [k \in 1..5 |-> <<>>]],
                1, driver)

SchemaCall(t, database) ==
    /\ Ready(t)
    /\ call' = [call EXCEPT ![t] =
            GetSchemaStart(NewCall("schema", <<>>, None, database, driver))]
    /\ UNCHANGED <<norm, config, driver, nDrivers, verified, closes>>

\* test_connection: `if not self.is_connected: await self.connect()`, else
\* straight on to the session
TestStart(t, c) ==
    IF ~is_connected
    THEN /\ LifecycleIdle
         /\ ConnectBegin(t, c)
    ELSE /\ call' = [call EXCEPT ![t] = TestEnter(c, driver)]
         /\ UNCHANGED <<norm, config, driver, nDrivers, verified, closes>>

TestCall(t) ==
    /\ Ready(t)
    /\ TestStart(t, NewCall("test", <<>>, None, None, driver))

---------------------------------------------------------------------------
(* The awaited driver calls complete *)

\* `await self._driver.verify_connectivity()` completes
ConnectVerify(t) ==
    /\ call[t].pc = "verify"
    /\ \/ /\ verified' = verified \cup {call[t].drv}
          /\ call' = [call EXCEPT ![t] =
                IF call[t].op = "test" THEN TestEnter(call[t], driver)
                ELSE Return(call[t])]
       \/ \E e \in VerifyErrors :
          /\ call' = [call EXCEPT ![t] = ConnectFailed(Caused(call[t], e, "verify"), e)]
          /\ UNCHANGED verified
    /\ UNCHANGED <<norm, config, driver, nDrivers, closes>>

\* an exception leaves the `async with` body of the operation c
BodyFailed(c, e, drv) ==
    IF c.op = "test" THEN TestFailed(c, e)
    ELSE IF c.op = "write" THEN Raise(SessionExit(c), ExecHandler(e))
    ELSE ReadFailed(c, e, drv)

\* the arguments of session.run: execute_* pass `parameters or {}`,
\* test_connection passes the query alone
RunArgs(c) ==
    IF c.op = "test" THEN [query |-> c.query, parameters |-> None]
    ELSE [query |-> c.query, parameters |-> Some(OrElse(c.parameters, EmptyDict))]

\* `await session.run(...)` completes
RunStep(t) ==
    /\ call[t].pc = "run"
    /\ LET c == [call[t] EXCEPT !.runs = Append(@, RunArgs(call[t]))]
       IN  \/ \E s \in StreamsFor(c) :
                call' = [call EXCEPT ![t] =
                    [c EXCEPT !.stream = s,
                              !.pc = IF c.op = "write" THEN "consume" ELSE "fetch"]]
           \/ \E e \in QueryErrors :
                call' = [call EXCEPT ![t] = BodyFailed(Caused(c, e, "run"), e, driver)]
    /\ UNCHANGED <<norm, config, driver, nDrivers, verified, closes>>

\* one turn of `async for record in result`
FetchStep(t) ==
    /\ call[t].pc = "fetch"
    /\ LET c == call[t]
       IN  \/ /\ c.stream = <<>>
              /\ call' = [call EXCEPT ![t] =
                    IF c.op = "test"
                    THEN Return([SessionExit(c) EXCEPT !.exhausted = TRUE,
                                    !.info = ConnectedInfo(c.components)])
                    ELSE ReadReturned([SessionExit(c) EXCEPT !.exhausted = TRUE], driver)]
           \/ /\ c.stream # <<>>
              /\ LET record == Head(c.stream)
                     c1 == [c EXCEPT !.stream = Tail(@), !.yielded = Append(@, record)]
                 IN  call' = [call EXCEPT ![t] =
                        IF c.op = "test" THEN
                            IF ComponentKeys \subseteq DOMAIN record
                            THEN [c1 EXCEPT !.components = Append(@, ComponentDict(record))]
                            ELSE TestFailed(Caused(c1, Err("KeyError", <<"versions">>),
                                                   "record"),
                                            Err("KeyError", <<"versions">>))
                        ELSE [c1 EXCEPT !.records = AppendRecord(@, RecordDict(record))]]
           \/ \E e \in QueryErrors :
                call' = [call EXCEPT ![t] = BodyFailed(Caused(c, e, "fetch"), e, driver)]
    /\ UNCHANGED <<norm, config, driver, nDrivers, verified, closes>>

\* `await result.consume()` completes
ConsumeStep(t) ==
    /\ call[t].pc = "consume"
    /\ \/ \E summary \in Summaries :
            call' = [call EXCEPT ![t] =
                Return([SessionExit(call[t]) EXCEPT !.summary = summary,
                                                    !.stats = WriteStats(summary)])]
       \/ \E e \in QueryErrors :
            call' = [call EXCEPT ![t] =
                BodyFailed(Caused(call[t], e, "consume"), e, driver)]
    /\ UNCHANGED <<norm, config, driver, nDrivers, verified, closes>>

\* the caller's task is cancelled while a query is outstanding: CancelledError
\* is raised at the await
Cancel(t) ==
    /\ call[t].pc \in {"run", "fetch", "consume"}
    /\ call' = [call EXCEPT ![t] =
            BodyFailed(Caused(call[t], CancelledError, call[t].pc), CancelledError, driver)]
    /\ UNCHANGED <<norm, config, driver, nDrivers, verified, closes>>

---------------------------------------------------------------------------
(* The specification: one caller *)

Callers == {"t1"}

Init ==
    /\ config = DefaultConfig
    /\ driver = NoDriver
    /\ nDrivers = 0
    /\ verified = {}
    /\ closes = [d \in DriverIds |-> 0]
    /\ call = [t \in AllTasks |-> IdleCall]
    /\ norm = NoNorm

Next ==
    \E t \in Callers :
        \/ ConnectCall(t)
        \/ ConnectVerify(t)
        \/ CloseCall(t)
        \/ CloseEnd(t)
        \/ \E database \in DbInputs : SessionCall(t, database)
        \/ \E query \in Queries, parameters \in ParamInputs, database \in DbInputs :
              ReadCall(t, query, parameters, database)
        \/ \E query \in Queries, parameters \in ParamInputs, database \in DbInputs :
              WriteCall(t, query, parameters, database)
        \/ \E database \in DbInputs : SchemaCall(t, database)
        \/ TestCall(t)
        \/ RunStep(t)
        \/ FetchStep(t)
        \/ ConsumeStep(t)
        \/ Cancel(t)

Spec == Init /\ [][Next]_vars

---------------------------------------------------------------------------
(* The connection probe under several configurations *)

\* configurations with and without credentials, plain and encrypted
ProbeConfigs ==
    {DefaultConfig,
     Neo4jConfig(RawConfig({"username", "password"}, <<"localhost">>, 7687, 7474,
                           Some(<<"user">>), Some(<<"pass">>), <<"neo4j">>, <<"bolt">>,
                           FALSE)),
     Neo4jConfig(RawConfig({"host", "port", "username", "database", "uri_scheme",
                            "encrypted"}, <<"example.com">>, 7688, 7474,
                           Some(<<"user">>), None, <<"movies">>, <<"neo4j">>, TRUE)),
     Neo4jConfig(RawConfig({"username", "password", "uri_scheme", "encrypted"},
                           <<"localhost">>, 7687, 7474, Some(<<"user">>), Some(<<>>),
                           <<"neo4j">>, <<"bolt", "+s">>, TRUE)),
     Neo4jConfig(RawConfig({"password"}, <<"localhost">>, 7687, 7474, None,
                           Some(<<"pass">>), <<"neo4j">>, <<"bolt">>, FALSE))}

InitProbe ==
    /\ config \in ProbeConfigs
    /\ driver = NoDriver
    /\ nDrivers = 0
    /\ verified = {}
    /\ closes = [d \in DriverIds |-> 0]
    /\ call = [t \in AllTasks |-> IdleCall]
    /\ norm = NoNorm

NextProbe ==
    \E t \in Callers :
        \/ ConnectCall(t)
        \/ ConnectVerify(t)
        \/ CloseCall(t)
        \/ CloseEnd(t)
        \/ TestCall(t)
        \/ RunStep(t)
        \/ FetchStep(t)
        \/ Cancel(t)

SpecProbe == InitProbe /\ [][NextProbe]_vars

---------------------------------------------------------------------------
(* Constructing a configuration and deriving its URI *)

MaxDerive == 2      \* times bolt_uri is read from one configuration

PortInputs == {0, 1, 7687, 65535, 65536, 70000}
HttpPortInputs == {0, 7474, 65536}
SchemeInputs == valid_schemes \cup {<<"invalid">>, <<"bolt", "+ssc">>, <<>>}
GivenInputs == SUBSET {"port", "http_port", "uri_scheme"}
HostInputs == {<<"localhost">>, <<"example.com">>}

InitConfig ==
    /\ \E given \in GivenInputs, host \in HostInputs, port \in PortInputs,
          http_port \in HttpPortInputs, uri_scheme \in SchemeInputs,
          encrypted \in BOOLEAN :
            config = RawConfig(given \cup {"host", "encrypted"}, host, port, http_port,
                               None, None, <<"neo4j">>, uri_scheme, encrypted)
    /\ driver = NoDriver
    /\ nDrivers = 0
    /\ verified = {}
    /\ closes = [d \in DriverIds |-> 0]
    /\ call = [t \in AllTasks |-> IdleCall]
    /\ norm = NoNorm

\* Neo4jConfig(**given) is called
Construct ==
    /\ config.status = "raw"
    /\ config' = Neo4jConfig(config)
    /\ UNCHANGED <<norm, driver, nDrivers, verified, closes, call>>

\* config.bolt_uri is read
DeriveUri ==
    /\ config.status = "built"
    /\ Len(config.uris) < MaxDerive
    /\ config' = [config EXCEPT !.uris = Append(@, bolt_uri(config))]
    /\ UNCHANGED <<norm, driver, nDrivers, verified, closes, call>>

NextConfig == Construct \/ DeriveUri

SpecConfig == InitConfig /\ [][NextConfig]_vars

---------------------------------------------------------------------------
(* Values handed to _serialize_neo4j_value *)

MaxItems == 2       \* items in one list or tuple
MaxHops == 2        \* relationships in one path
MaxApply == 2       \* times the function is applied in a row

\* str, int and None, each standing for its kind of basic value
ScalarValues == {Scalar("s"), Scalar("1"), Scalar("null")}

MapKeys == {"a", "b"}

\* the lists, tuples and dicts whose items are taken from E
Containers(E) ==
    {ListV(items) : items \in SeqsUpTo(E, MaxItems)}
        \cup {TupleV(items) : items \in SeqsUpTo(E, MaxItems)}
        \cup {MapV(m) : m \in UNION {[K -> E] : K \in SUBSET MapKeys}}

FlatValues == ScalarValues \cup Containers(ScalarValues)

NestedItems ==
    {Scalar("s"), ListV(<<Scalar("1")>>), TupleV(<<Scalar("s"), Scalar("null")>>),
     MapV([a |-> Scalar("1")])}

DeepItems ==
    {ListV(<<>>), TupleV(<<ListV(<<Scalar("1")>>)>>),
     MapV([a |-> TupleV(<<Scalar("s")>>)])}

PlainValues == FlatValues \cup Containers(NestedItems) \cup Containers(DeepItems)

\* property keys, some of them spelled like the keys the function adds
PropKeys == {"name", "_id", "_labels", "_type"}
PropValues == {Scalar("Alice"), ListV(<<Scalar("x")>>)}
Properties == UNION {[K -> PropValues] : K \in SUBSET PropKeys}

Nodes ==
    {NodeV(props, labels, "7", "4:x:7") :
        props \in Properties, labels \in {<<>>, <<Scalar("Person")>>}}
Relationships == {RelV(props, "KNOWS", "9", "5:x:9") : props \in Properties}

\* the nodes and relationships paths are made of
PathNodes == {PersonNode, NodeV([_id |-> Scalar("Alice")], <<>>, "8", "4:x:8")}
PathRelationships ==
    {RelV(<<>>, "KNOWS", "9", "5:x:9"),
     RelV([name |-> Scalar("Alice")], "LIKES", "10", "5:x:10")}

\* a path of h relationships has h + 1 nodes
Paths ==
    {PathV(nodes, rels) :
        nodes \in {ns \in SeqsUpTo(PathNodes, MaxHops + 1) : ns # <<>>},
        rels \in SeqsUpTo(PathRelationships, MaxHops)}

WalkedPaths == {p \in Paths : Len(p.nodes) = Len(p.relationships) + 1}

\* graph values inside plain containers
MixedValues ==
    {ListV(<<PersonNode, Scalar("s")>>),
     MapV([a |-> PathV(<<PersonNode>>, <<>>)]),
     TupleV(<<RelV(<<>>, "KNOWS", "9", "5:x:9")>>)}

NormInputs == PlainValues \cup Nodes \cup Relationships \cup WalkedPaths \cup MixedValues

InitNormalize ==
    /\ config = DefaultConfig
    /\ driver = NoDriver
    /\ nDrivers = 0
    /\ verified = {}
    /\ closes = [d \in DriverIds |-> 0]
    /\ call = [t \in AllTasks |-> IdleCall]
    /\ \E value \in NormInputs : norm = [in |-> value, out |-> <<>>]

\* _serialize_neo4j_value is applied to the value, then to what it returned
Normalize ==
    /\ Len(norm.out) < MaxApply
    /\ LET value == IF norm.out = <<>> THEN norm.in ELSE norm.out[Len(norm.out)]
       IN  norm' = [norm EXCEPT !.out = Append(@, _serialize_neo4j_value(value))]
    /\ UNCHANGED <<config, driver, nDrivers, verified, closes, call>>

NextNormalize == Normalize

SpecNormalize == InitNormalize /\ [][NextNormalize]_vars

---------------------------------------------------------------------------
(* The server: app_lifespan owns the Connection, the tools use it *)

\* the task that runs app_lifespan
App == "app"

\* the lifespan was entered and its generator has finished
LifespanEnded(a) == a.life = "closing" /\ a.pc = "done"

\* `config = Neo4jConfig(); neo4j_conn = Neo4jConnection(config)`, then the try
\* block up to the await inside connect()
LifespanEnter ==
    /\ call[App].life = "init"
    /\ ConnectBegin(App, [NewCall("connect", <<>>, None, None, driver)
                            EXCEPT !.life = "connecting"])

\* the `yield` is reached when `await neo4j_conn.connect()` returned; when it
\* raised, control goes to the finally clause
StartupDone_Either(a) == Finished(a)
StartupDone(a) == Succeeded(a)

\* connect() returned: `yield AppContext(...)`, the server runs
LifespanYield ==
    /\ call[App].life = "connecting"
    /\ StartupDone(call[App])
    /\ call' = [call EXCEPT ![App].life = "serving"]
    /\ UNCHANGED <<norm, config, driver, nDrivers, verified, closes>>

\* why the try block is left: connect() raised, or the server stopped, or an
\* exception was thrown in at the yield
LifespanExits(a) ==
    IF a.life = "connecting" /\ Failed(a) THEN {"startup_failed"}
    ELSE IF a.life = "serving" THEN {"shutdown", "error"}
    ELSE {}

\* the finally clause: `await neo4j_conn.close()`
LifespanFinally ==
    \E why \in LifespanExits(call[App]) :
        CloseBegin(App, [NewCall("close", <<>>, None, None, driver)
                            EXCEPT !.life = "closing",
                                   !.finals = call[App].finals + 1,
                                   !.exit = why,
                                   !.error = call[App].error])

\* _get_neo4j_connection(): a tool reaches the Connection through the lifespan
\* context, which exists while the server runs
Serving == call[App].life = "serving"

\* the queries the tools are given here
ToolQueries == {<<"M">>}

InitServer ==
    /\ config = DefaultConfig
    /\ driver = NoDriver
    /\ nDrivers = 0
    /\ verified = {}
    /\ closes = [d \in DriverIds |-> 0]
    /\ call = [t \in AllTasks |->
                IF t = App THEN [IdleCall EXCEPT !.life = "init"] ELSE IdleCall]
    /\ norm = NoNorm

NextServer ==
    \/ LifespanEnter
    \/ ConnectVerify(App)
    \/ LifespanYield
    \/ LifespanFinally
    \/ CloseEnd(App)
    \/ \E t \in Callers :
        \/ Serving /\ \E query \in ToolQueries : ReadCall(t, query, None, None)
        \/ Serving /\ \E query \in ToolQueries : WriteCall(t, query, None, None)
        \/ Serving /\ SchemaCall(t, None)
        \/ Serving /\ TestCall(t)
        \/ RunStep(t)
        \/ FetchStep(t)
        \/ ConsumeStep(t)
        \/ Cancel(t)

SpecServer == InitServer /\ [][NextServer]_vars

---------------------------------------------------------------------------
(* The tools of the server *)

QueryTools ==
    {"read_cypher_query", "write_cypher_query", "get_database_schema",
     "run_cypher_query"}

\* what _get_neo4j_connection() raises when there is no lifespan context
ContextError == Err("ValueError", <<"Context is not available outside of a request">>)

\* the call is made by the named tool
Via(tool, read_only, c) == [c EXCEPT !.tool = tool, !.read_only = read_only]

\* `conn = _get_neo4j_connection()` raised: no operation of the Connection is called
NoConnection(tool, read_only) ==
    Raise(Via(tool, read_only, NewCall("none", <<>>, None, None, driver)), ContextError)

\* `read_only: bool = True`
ReadOnly(c) == IF c.read_only = None THEN TRUE ELSE c.read_only[1]

\* `if read_only:` ... `else:` selects the operation run_cypher_query calls
RunDispatch_AlwaysWrite(read_only) == "write"
RunDispatch(read_only) == IF read_only THEN "read" ELSE "write"

read_cypher_query(t, query, parameters, database) ==
    /\ Ready(t)
    /\ call' = [call EXCEPT ![t] =
            IF Serving
            THEN ExecuteReadStart(Via("read_cypher_query", None,
                    NewCall("read", query, parameters, database, driver)))
            ELSE NoConnection("read_cypher_query", None)]
    /\ UNCHANGED <<norm, config, driver, nDrivers, verified, closes>>

write_cypher_query(t, query, parameters, database) ==
    /\ Ready(t)
    /\ call' = [call EXCEPT ![t] =
            IF Serving
            THEN ExecuteWriteStart(Via("write_cypher_query", None,
                    NewCall("write", query, parameters, database, driver)))
            ELSE NoConnection("write_cypher_query", None)]
    /\ UNCHANGED <<norm, config, driver, nDrivers, verified, closes>>

get_database_schema(t, database) ==
    /\ Ready(t)
    /\ call' = [call EXCEPT ![t] =
            IF Serving
            THEN GetSchemaStart(Via("get_database_schema", None,
                    NewCall("schema", <<>>, None, database, driver)))
            ELSE NoConnection("get_database_schema", None)]
    /\ UNCHANGED <<norm, config, driver, nDrivers, verified, closes>>

test_database_connection(t) ==
    /\ Ready(t)
    /\ IF Serving
       THEN TestStart(t, Via("test_database_connection", None,
                NewCall("test", <<>>, None, None, driver)))
       ELSE /\ call' = [call EXCEPT ![t] = NoConnection("test_database_connection", None)]
            /\ UNCHANGED <<norm, config, driver, nDrivers, verified, closes>>

run_cypher_query(t, query, parameters, database, read_only) ==
    /\ Ready(t)
    /\ LET c == Via("run_cypher_query", read_only,
                    NewCall(RunDispatch(ReadOnly([read_only |-> read_only])),
                            query, parameters, database, driver))
       IN  call' = [call EXCEPT ![t] =
                IF ~Serving THEN NoConnection("run_cypher_query", read_only)
                ELSE IF c.op = "read" THEN ExecuteReadStart(c)
                ELSE ExecuteWriteStart(c)]
    /\ UNCHANGED <<norm, config, driver, nDrivers, verified, closes>>

\* the text each tool puts in front of str(e)
ToolPrefix(tool) ==
    CASE tool = "read_cypher_query" -> <<"Error executing read query: ">>
      [] tool = "write_cypher_query" -> <<"Error executing write query: ">>
      [] tool = "get_database_schema" -> <<"Error retrieving schema: ">>
      [] tool = "test_database_connection" -> <<"Error testing connection: ">>
      [] tool = "run_cypher_query" -> <<"Error executing query: ">>

\* `error_msg = f"...: {str(e)}"`
ErrorMsg_PrefixOnly(c) == ToolPrefix(c.tool)
ErrorMsg(c) == ToolPrefix(c.tool) \o c.error.msg

\* what the operation of the Connection returned to the tool
CoreResult(c) ==
    CASE c.op = "read" -> [records |-> c.records]
      [] c.op = "write" -> [stats |-> c.stats]
      [] c.op = "schema" -> [schema |-> c.schema]
      [] c.op = "test" -> [info |-> c.info]

\* run_cypher_query's two return statements
RunResult(c) ==
    IF ReadOnly(c)
    THEN [type |-> "read", records |-> c.records, count |-> Len(c.records)]
    ELSE [type |-> "write", statistics |-> c.stats]

\* What the tool hands back once the operation has ended: the try block's
\* return value, or what the `except Exception` clause makes of the error.
\* An exception that is no Exception passes through both.
ToolOutput(c) ==
    IF ~Finished(c) THEN [kind |-> "pending"]
    ELSE IF Succeeded(c) THEN
        [kind |-> "return",
         value |-> IF c.tool = "run_cypher_query" THEN RunResult(c) ELSE CoreResult(c)]
    ELSE IF ~IsException(c.error) THEN [kind |-> "raise", error |-> c.error]
    ELSE IF c.tool = "test_database_connection" THEN
        [kind |-> "return", value |-> [connected |-> FALSE, error |-> ErrorMsg(c)]]
    ELSE [kind |-> "raise", error |-> Err("RuntimeError", ErrorMsg(c))]

\* the queries and read_only arguments the tools are called with
ToolInputs == {<<>>, <<"M">>}
ReadOnlyInputs == {None, Some(TRUE), Some(FALSE)}

InitTools == InitServer

NextTools ==
    \/ LifespanEnter
    \/ ConnectVerify(App)
    \/ LifespanYield
    \/ LifespanFinally
    \/ CloseEnd(App)
    \/ \E t \in Callers :
        \/ \E query \in ToolInputs : read_cypher_query(t, query, None, None)
        \/ \E query \in ToolInputs : write_cypher_query(t, query, None, None)
        \/ get_database_schema(t, None)
        \/ test_database_connection(t)
        \/ \E query \in ToolInputs, read_only \in ReadOnlyInputs :
              run_cypher_query(t, query, None, None, read_only)
        \/ RunStep(t)
        \/ FetchStep(t)
        \/ ConsumeStep(t)
        \/ Cancel(t)

SpecTools == InitTools /\ [][NextTools]_vars

---------------------------------------------------------------------------
(* Concurrent tool calls on a connected Connection *)

\* two request tasks, each with a query of its own
ConcTasks == {"t1", "t2"}
ConcQuery(t) == IF t = "t1" THEN <<"M">> ELSE <<" ", "M", "\n">>

\* the Connection after a connect() that succeeded
InitConc ==
    /\ config = DefaultConfig
    /\ driver = 1
    /\ nDrivers = 1
    /\ verified = {1}
    /\ closes = [d \in DriverIds |-> 0]
    /\ call = [t \in AllTasks |-> IdleCall]
    /\ norm = NoNorm

\* the steps of task t
ConcStep(t) ==
    \/ ReadCall(t, ConcQuery(t), None, None)
    \/ WriteCall(t, ConcQuery(t), None, None)
    \/ RunStep(t)
    \/ FetchStep(t)
    \/ ConsumeStep(t)
    \/ Cancel(t)

NextConc == \E t \in ConcTasks : ConcStep(t)

SpecConc == InitConc /\ [][NextConc]_vars

---------------------------------------------------------------------------
(* close() while get_schema is in flight *)

\* the task that reads the schema and the task that closes the Connection
Reader == "t1"
Closer == "t2"

NextRace ==
    \/ \E database \in DbInputs : SchemaCall(Reader, database)
    \/ RunStep(Reader)
    \/ FetchStep(Reader)
    \/ Cancel(Reader)
    \/ CloseCall(Closer)
    \/ CloseEnd(Closer)

SpecRace == InitConc /\ [][NextRace]_vars

---------------------------------------------------------------------------
(* The event loop thread and the driver's blocking work *)

\* GraphDatabase.driver(...) builds the blocking driver, and the operations
\* call its methods directly in the coroutine: no executor, no worker thread.
\* The driver call therefore runs on the thread of the event loop.
DriverCallRunsOn == "loop"

\* the positions at which an operation has a driver call outstanding
DriverPcs == {"verify", "closing", "run", "fetch", "consume"}

\* task t occupies the event loop thread with a driver call
HoldsLoop(t) == call[t].pc \in DriverPcs /\ DriverCallRunsOn = "loop"

\* the event loop can run task t: no other task occupies its thread
LoopFree(t) == \A u \in AllTasks \ {t} : ~HoldsLoop(u)

\* an unrelated coroutine of the same event loop takes a step
Other == "t2"
OtherWork ==
    /\ Ready(Other)
    /\ call' = [call EXCEPT ![Other] =
            Return([NewCall("other", <<>>, None, None, NoDriver)
                        EXCEPT !.opens = (call[Other].opens + 1) % 2])]
    /\ UNCHANGED <<norm, config, driver, nDrivers, verified, closes>>

\* a step is taken by a task the event loop can run
NextLoop ==
    \/ \E t \in Callers :
        \/ LoopFree(t) /\ ConnectCall(t)
        \/ LoopFree(t) /\ ConnectVerify(t)
        \/ LoopFree(t) /\ CloseCall(t)
        \/ LoopFree(t) /\ CloseEnd(t)
        \/ LoopFree(t) /\ \E query \in ToolQueries : ReadCall(t, query, None, None)
        \/ LoopFree(t) /\ \E query \in ToolQueries : WriteCall(t, query, None, None)
        \/ LoopFree(t) /\ SchemaCall(t, None)
        \/ LoopFree(t) /\ TestCall(t)
        \/ LoopFree(t) /\ RunStep(t)
        \/ LoopFree(t) /\ FetchStep(t)
        \/ LoopFree(t) /\ ConsumeStep(t)
    \/ LoopFree(Other) /\ OtherWork

SpecLoop == Init /\ [][NextLoop]_vars

---------------------------------------------------------------------------
(* Properties *)

Range(s) == {s[i] : i \in DOMAIN s}

\* C1: whenever no connect() is awaiting its connectivity check, a present
\* driver handle (is_connected) has passed a connectivity check; and the driver
\* a failed connect() created is not the Connection's handle.
C1_ConnectedOnlyIfVerified ==
    /\ (is_connected /\ \A t \in AllTasks : call[t].pc # "verify") => driver \in verified
    /\ \A t \in AllTasks :
        (call[t].op = "connect" /\ Failed(call[t]) /\ call[t].drv # NoDriver)
            => driver # call[t].drv

\* C2: connect() called while connected (a verified handle present) opens no
\* driver and performs no connectivity check.
C2_ConnectIdempotent ==
    \A t \in AllTasks :
        (call[t].op = "connect" /\ call[t].drvAtCall # NoDriver
                                /\ call[t].drvAtCall \in verified)
            => /\ call[t].opens = 0
               /\ call[t].checks = 0
               /\ call[t].drv = NoDriver

C4_QueriesRequireConnected ==
    \A t \in Callers :
        LET c == call[t]
        IN  (c.op \in {"session", "read", "write"} /\ c.drvAtCall = NoDriver)
                => /\ Failed(c)
                   /\ c.error.type \in {"RuntimeError", "Neo4jError", "ValueError"}
                   /\ c.opened = 0 /\ c.session = NoSession
                   /\ c.runs = <<>>
                   /\ c.opens = 0 /\ c.checks = 0
                   /\ ~is_connected

\* a non-blank execute_read_query after close()
C4_Witness ==
    \E t \in Callers :
        /\ call[t].op = "read" /\ call[t].drvAtCall = NoDriver
        /\ call[t].error.type = "Neo4jError"
        /\ \E d \in DriverIds : closes[d] = 1

\* C5: execute_read_query and execute_write_query given a query made of
\* whitespace only (or empty) raise the ValueError of the validation itself, open
\* no session and run nothing, connected or not.
AllWhitespace(query) == \A i \in DOMAIN query : query[i] \in Whitespace

C5_BlankQueryRejected ==
    \A t \in Callers :
        LET c == call[t]
        IN  (c.op \in {"read", "write"} /\ AllWhitespace(c.query))
                => /\ Failed(c)
                   /\ c.error = EmptyQueryError
                   /\ c.opened = 0 /\ c.session = NoSession
                   /\ c.runs = <<>>

\* a whitespace-only read query on a connected Connection
C5_Witness ==
    \E t \in Callers :
        /\ call[t].op = "read" /\ call[t].query = <<" ", "\t", " ">>
        /\ call[t].drvAtCall \in verified
        /\ call[t].error = EmptyQueryError

\* C6: a call holds at most one session, holds it only while it awaits run,
\* a record or the summary, and has released every session it opened, each once,
\* when it has ended: by return, by a failed run, fetch or consume, or by
\* cancellation.
C6_SessionReleased ==
    \A t \in Callers :
        LET c == call[t]
        IN  /\ c.opened - c.released = IF c.session # NoSession THEN 1 ELSE 0
            /\ c.session # NoSession => c.pc \in {"run", "fetch", "consume"}
            /\ c.pc \in {"run", "fetch", "consume"} => c.session # NoSession
            /\ c.pc \in {"idle", "done"} => c.session = NoSession /\ c.released = c.opened

\* an execute_read_query cancelled after its first record
C6_Witness ==
    \E t \in Callers :
        /\ call[t].op = "read" /\ Failed(call[t])
        /\ call[t].error = CancelledError
        /\ Len(call[t].yielded) = 1
        /\ call[t].opened = 1 /\ call[t].released = 1

\* C7: a session held by execute_read_query (also on behalf of get_schema) is in
\* read-access mode, one held by execute_write_query in write-access mode.
C7_AccessModeSeparation ==
    \A t \in AllTasks :
        LET c == call[t]
        IN  c.session # NoSession
                => /\ c.op \in {"read", "schema"} => c.session.mode = "READ"
                   /\ c.op = "write" => c.session.mode = "WRITE"

\* C8: an execute_read_query that returned has run its query once, with the
\* given parameters or an empty mapping, has taken every record of the result,
\* and returns one mapping per record in the order they were yielded, each with
\* the record's keys and the normalized values.
C8_ReadResult ==
    \A t \in Callers :
        LET c == call[t]
        IN  (c.op = "read" /\ Succeeded(c))
                => /\ c.runs = <<[query |-> c.query,
                                  parameters |-> IF c.parameters = None THEN Some(EmptyDict)
                                                 ELSE c.parameters]>>
                   /\ c.stream = <<>> /\ c.exhausted
                   /\ Len(c.records) = Len(c.yielded)
                   /\ \A i \in DOMAIN c.yielded :
                        /\ DOMAIN c.records[i] = DOMAIN c.yielded[i]
                        /\ \A k \in DOMAIN c.yielded[i] :
                            c.records[i][k] = _serialize_neo4j_value(c.yielded[i][k])

\* a read that returned two different records
C8_Witness ==
    \E t \in Callers :
        /\ call[t].op = "read" /\ Succeeded(call[t])
        /\ Len(call[t].yielded) = 2
        /\ call[t].yielded[1] # call[t].yielded[2]
        /\ call[t].parameters = None

\* C9: an execute_write_query that returned gives one mapping whose keys are
\* the eleven counters, query_type, result_available_after and
\* result_consumed_after, each counter that of the summary, and has taken no
\* record of the result.
C9_WriteResult ==
    \A t \in Callers :
        LET c == call[t]
        IN  (c.op = "write" /\ Succeeded(c))
                => /\ DOMAIN c.stats = CounterNames \cup
                        {"query_type", "result_available_after", "result_consumed_after"}
                   /\ \A k \in CounterNames : c.stats[k] = c.summary.counters[k]
                   /\ c.stats.query_type = c.summary.query_type
                   /\ c.yielded = <<>> /\ c.records = <<>>
                   /\ (c.summary.counters =
                            [ZeroCounters EXCEPT !.nodes_created = 1, !.properties_set = 2]
                        => /\ c.stats.nodes_created = 1
                           /\ c.stats.properties_set = 2
                           /\ \A k \in CounterNames \ {"nodes_created", "properties_set"} :
                                c.stats[k] = 0)

\* a write that created one node with two properties and also returned rows
C9_Witness ==
    \E t \in Callers :
        /\ call[t].op = "write" /\ Succeeded(call[t])
        /\ call[t].stats.nodes_created = 1 /\ call[t].stats.properties_set = 2
        /\ call[t].stats.nodes_deleted = 0
        /\ call[t].stream # <<>>

\* C10: in get_schema only the constraints and indexes queries are absorbed; an
\* absorbed query leaves its list empty; once the constraints query is reached
\* nothing but cancellation of the caller makes get_schema raise; after a failed
\* constraints query the indexes query is issued; and the snapshot returned
\* holds, for every query that answered, exactly what it answered.
SchemaAnswer(c, k) ==
    IF c.answers[k] = <<>> THEN EmptyList
    ELSE _serialize_neo4j_value(c.answers[k][1][SchemaColumn[k]])

C10_SchemaAbsorbsOptional ==
    \A t \in Callers :
        LET c == call[t]
        IN  c.op = "schema"
                => /\ c.failed \subseteq {4, 5}
                   /\ \A k \in c.failed : c.answers[k] = <<>>
                   /\ (4 \in c.failed) => 5 \in Range(c.issued)
                   /\ (Failed(c) /\ c.stage >= 4) => c.error = CancelledError
                   /\ Succeeded(c)
                        => /\ c.issued = <<1, 2, 3, 4, 5>>
                           /\ c.schema.labels = SchemaAnswer(c, 1)
                           /\ c.schema.relationshipTypes = SchemaAnswer(c, 2)
                           /\ c.schema.propertyKeys = SchemaAnswer(c, 3)
                           /\ c.schema.constraints = SchemaAnswer(c, 4)
                           /\ c.schema.indexes = SchemaAnswer(c, 5)

\* a snapshot returned after the constraints query failed and the others answered
C10_Witness ==
    \E t \in Callers :
        /\ call[t].op = "schema" /\ Succeeded(call[t])
        /\ call[t].failed = {4}
        /\ call[t].schema.constraints = EmptyList
        /\ call[t].schema.labels # EmptyList
        /\ call[t].schema.indexes # EmptyList

\* the exception that leaves get_schema when sub-query c.stage raised c.cause:
\* what execute_read_query makes of it, wrapped by get_schema's outer handler
SchemaRaises(c) ==
    IF ~IsException(c.cause) THEN c.cause
    ELSE IF c.causeAt = "column" THEN
        Err("Neo4jError", <<"Failed to retrieve schema: ">> \o c.cause.msg)
    ELSE IF c.cause.type \in {"Neo4jError", "AuthError"} THEN
        Err("Neo4jError", <<"Failed to retrieve schema: ">> \o c.cause.msg)
    ELSE Err("Neo4jError", <<"Failed to retrieve schema: ", "Query execution failed: ">>
                                \o c.cause.msg)

\* C11: get_schema never absorbs a failure of the labels, relationship-types or
\* property-keys query; such a failure ends get_schema: the call raises an error made from that failure, has built no
\* snapshot, and has issued exactly the sub-queries up to the failing one.
C11_RequiredQueriesPropagate ==
    \A t \in Callers :
        LET c == call[t]
        IN  c.op = "schema"
                => /\ c.failed \cap {1, 2, 3} = {}
                   /\ (c.stage \in {1, 2, 3} /\ c.cause # NoError)
                        => /\ Failed(c)
                           /\ c.error = SchemaRaises(c)
                           /\ c.schema = <<>>
                           /\ c.issued = [k \in 1..c.stage |-> k]

\* the relationship-types query failed on a lost server after the labels query
\* answered
C11_Witness ==
    \E t \in Callers :
        /\ call[t].op = "schema" /\ Failed(call[t])
        /\ call[t].stage = 2
        /\ call[t].cause = Err("ServiceUnavailable", <<"lost">>)
        /\ call[t].causeAt = "fetch"
        /\ call[t].answers[1] # <<>>

\* the exception that reaches test_connection's except clause when the step
\* c.causeAt raised c.cause: connect() has turned its own failures into
\* ConnectionError, every other failure arrives as raised
ProbeFailure(c) ==
    IF c.causeAt \notin {"create", "verify"} THEN c.cause
    ELSE IF c.cause.type = "AuthError" THEN
        Err("ConnectionError", <<"Neo4j authentication failed: ">> \o c.cause.msg)
    ELSE IF c.cause.type = "ServiceUnavailable" THEN
        Err("ConnectionError", <<"Neo4j service unavailable at ">> \o bolt_uri(config)
                                    \o <<": ">> \o c.cause.msg)
    ELSE Err("ConnectionError", <<"Failed to connect to Neo4j: ">> \o c.cause.msg)

\* C12: a test_connection call in which the implicit connect, the session, the
\* run or the iteration failed ends by returning {connected: false, uri,
\* database, error} with the failure's message as error; it ends by raising only
\* when the calling task was cancelled; and when it was called with no driver
\* and the server was unavailable, error is not the empty string.
C12_ProbeNeverRaises ==
    \A t \in Callers :
        LET c == call[t]
        IN  (c.op = "test" /\ Finished(c))
                => /\ Failed(c) => c.cause = CancelledError
                   /\ (c.cause # NoError /\ c.cause # CancelledError)
                        => /\ Succeeded(c)
                           /\ c.info = [connected |-> FALSE,
                                        uri |-> bolt_uri(config),
                                        database |-> config.database,
                                        error |-> ProbeFailure(c).msg]
                   /\ (c.drvAtCall = NoDriver /\ c.cause.type = "ServiceUnavailable"
                                              /\ c.causeAt = "verify")
                        => c.info.error # <<>>

\* called with no driver, the connectivity check failed with a
\* ServiceUnavailable that carries no text, and a failure record was returned
C12_Witness ==
    \E t \in Callers :
        /\ call[t].op = "test" /\ Succeeded(call[t])
        /\ call[t].drvAtCall = NoDriver
        /\ call[t].cause = Err("ServiceUnavailable", <<>>)
        /\ call[t].causeAt = "verify"
        /\ call[t].info.connected = FALSE
        /\ config.encrypted

\* the Connection is connected: a handle is present and it passed a
\* connectivity check
Connected(drv) == drv # NoDriver /\ drv \in verified

\* C13: test_connection attempts connect() exactly when the Connection is not
\* connected at the call; it returns {connected: true, uri, database,
\* auth_enabled, components} exactly when no step failed, with auth_enabled
\* telling whether both credentials are configured and components holding one
\* entry per record in order; and the Connection is then connected.
C13_ProbeConnectsFirst ==
    \A t \in Callers :
        LET c == call[t]
        IN  c.op = "test"
                => /\ (c.opens > 0) <=> ~Connected(c.drvAtCall)
                   /\ Finished(c)
                        => /\ (Succeeded(c) /\ c.info.connected) <=> c.cause = NoError
                           /\ c.cause = NoError
                                => /\ c.info.uri = bolt_uri(config)
                                   /\ c.info.database = config.database
                                   /\ c.info.auth_enabled
                                        <=> /\ config.username \notin {None, Some(<<>>)}
                                            /\ config.password \notin {None, Some(<<>>)}
                                   /\ c.info.components
                                        = [i \in 1..Len(c.yielded) |->
                                            [name |-> c.yielded[i].name,
                                             versions |-> c.yielded[i].versions,
                                             edition |-> c.yielded[i].edition]]
                                   /\ c.exhausted
                                   /\ Connected(driver)

\* C14: a connect() call creates at most one driver and awaits at most one
\* connectivity check; when either raises, the call ends at once by raising
\* ConnectionError whose message names the kind of failure (authentication,
\* service unavailable, anything else) and carries the failure's own text; a
\* call that returned normally had no failure and its driver passed the check.
C14_ConnectFailureSurfaced ==
    \A t \in Callers :
        LET c == call[t]
        IN  c.op = "connect"
                => /\ c.opens <= 1 /\ c.checks <= 1
                   /\ c.checks = 1 => c.opens = 1
                   /\ c.cause # NoError
                        => /\ Failed(c)
                           /\ c.error.type = "ConnectionError"
                           /\ c.error = ProbeFailure(c)
                           /\ c.error.msg[1] =
                                (CASE c.cause.type = "AuthError"
                                        -> "Neo4j authentication failed: "
                                   [] c.cause.type = "ServiceUnavailable"
                                        -> "Neo4j service unavailable at "
                                   [] OTHER -> "Failed to connect to Neo4j: ")
                           /\ c.checks = IF c.causeAt = "create" THEN 0 ELSE 1
                   /\ Succeeded(c) => (c.cause = NoError /\ c.drv \in verified)

\* a connect() that ended with the service-unavailable ConnectionError after
\* one driver creation and one connectivity check
C14_Witness ==
    \E t \in Callers :
        /\ call[t].op = "connect" /\ Failed(call[t])
        /\ call[t].cause = Err("ServiceUnavailable", <<"refused">>)
        /\ call[t].opens = 1 /\ call[t].checks = 1
        /\ call[t].error.msg =
            <<"Neo4j service unavailable at ", "bolt", "://", "localhost", ":", "7687",
              ": ", "refused">>

\* the last piece of a message
LastPiece(msg) == msg[Len(msg)]

\* C16: when run(), the record iteration or consume() raises inside
\* execute_read_query or execute_write_query, the call ends by raising: a
\* Neo4jError from the driver is raised as it was, any other exception is raised
\* as Neo4jError "Query execution failed: " followed by the original message;
\* nothing is returned (no records, no stats).
C16_QueryFailureSurfaced ==
    \A t \in Callers :
        LET c == call[t]
        IN  (c.op \in {"read", "write"} /\ c.causeAt \in {"run", "fetch", "consume"}
                                        /\ c.cause # CancelledError)
                => /\ Failed(c)
                   /\ c.error.type = "Neo4jError"
                   /\ c.cause.type = "Neo4jError" => c.error = c.cause
                   /\ c.cause.type # "Neo4jError"
                        => /\ c.error.msg[1] = "Query execution failed: "
                           /\ c.error.msg = <<"Query execution failed: ">> \o c.cause.msg
                           /\ LastPiece(c.error.msg) = LastPiece(c.cause.msg)
                   /\ c.stats = <<>>
                   /\ c.summary = NoSummary

\* a write whose consume() lost the server: raised wrapped, with the text kept
C16_Witness ==
    \E t \in Callers :
        /\ call[t].op = "write" /\ Failed(call[t])
        /\ call[t].causeAt = "consume"
        /\ call[t].cause = Err("ServiceUnavailable", <<"lost">>)
        /\ call[t].error = Err("Neo4jError", <<"Query execution failed: ", "lost">>)

OpenSessions == {t \in AllTasks : call[t].session # NoSession}

C18_DriverWorkOffLoop ==
    \A t \in Callers :
        call[t].pc \in DriverPcs => ENABLED (LoopFree(Other) /\ OtherWork)

\* the configuration invariant: both ports in [1,65535], scheme one of the four
InRange(p) == 1 <= p /\ p <= 65535
WellFormed(cfg) ==
    /\ InRange(cfg.port)
    /\ InRange(cfg.http_port)
    /\ cfg.uri_scheme \in {<<"bolt">>, <<"bolt", "+s">>, <<"neo4j">>, <<"neo4j", "+s">>}

\* C19: a construction ends with a Configuration exactly when both ports are in
\* [1,65535] and the scheme is one of bolt, bolt+s, neo4j, neo4j+s; otherwise it
\* ends with the validation error and without a Configuration.
C19_ConstructionValidates ==
    config.status # "raw"
        => /\ config.status \in {"built", "rejected"}
           /\ (config.status = "built") <=> WellFormed(config)
           /\ (config.status = "rejected") <=> (config.errors # {})
           /\ config.status = "rejected" => config.uris = <<>>

\* the number of "+s" markers in a URI
RECURSIVE Markers(_)
Markers(uri) ==
    IF uri = <<>> THEN 0
    ELSE (IF Head(uri) = "+s" THEN 1 ELSE 0) + Markers(Tail(uri))

\* a scheme without its marker
Unmarked(scheme) ==
    IF scheme # <<>> /\ scheme[Len(scheme)] = "+s"
    THEN SubSeq(scheme, 1, Len(scheme) - 1)
    ELSE scheme

\* C20: every bolt_uri read from a well-formed configuration is
\* <scheme>://<host>:<port>; with encryption off the scheme is the configured
\* one, with encryption on it is the secure variant, and the marker "+s" then
\* occurs exactly once, also when the configured scheme had it already; reading
\* it again gives the same value; bolt, localhost, 7687 give bolt://localhost:7687 and, encrypted,
\* bolt+s://localhost:7687.
C20_BoltUri ==
    (config.status = "built" /\ WellFormed(config))
        => \A i \in DOMAIN config.uris :
                LET uri == config.uris[i]
                    scheme == IF config.encrypted
                              THEN Unmarked(config.uri_scheme) \o <<"+s">>
                              ELSE config.uri_scheme
                    port == CASE config.port = 1 -> "1"
                              [] config.port = 7687 -> "7687"
                              [] config.port = 65535 -> "65535"
                              [] OTHER -> "?"
                IN  /\ uri = scheme \o <<"://">> \o config.host \o <<":", port>>
                    /\ config.encrypted => Markers(uri) = 1
                    /\ ~config.encrypted => Markers(uri) = Markers(config.uri_scheme)
                    /\ uri = config.uris[1]
                    /\ (config.uri_scheme = <<"bolt">> /\ config.host = <<"localhost">>
                                                       /\ config.port = 7687)
                            => uri = IF config.encrypted
                                     THEN <<"bolt", "+s", "://", "localhost", ":", "7687">>
                                     ELSE <<"bolt", "://", "localhost", ":", "7687">>

\* bolt_uri read twice from an encrypted configuration whose scheme is already
\* bolt+s
C20_Witness ==
    /\ config.status = "built"
    /\ config.uri_scheme = <<"bolt", "+s">>
    /\ config.encrypted
    /\ config.port = 7687 /\ config.http_port = 7474
    /\ Len(config.uris) = 2
    /\ config.uris[2] = <<"bolt", "+s", "://", "localhost", ":", "7687">>

\* a credential is present: it is set and is not the empty string
Present(cred) == cred # None /\ cred # Some(<<>>)

\* C21: every GraphDatabase.driver() call is given auth = (username, password)
\* when the configuration has both, and auth = None when it lacks either; it is
\* never given a pair with a missing half.
C21_CredentialsAllOrNothing ==
    \A t \in Callers :
        LET c == call[t]
        IN  /\ Len(c.args) = c.opens
            /\ \A i \in DOMAIN c.args :
                LET auth == c.args[i].auth
                IN  /\ (Present(config.username) /\ Present(config.password))
                        => auth = Some(<<config.username[1], config.password[1]>>)
                    /\ ~(Present(config.username) /\ Present(config.password))
                        => auth = None
                    /\ auth # None
                        => /\ Len(auth[1]) = 2
                           /\ auth[1][1] # <<>> /\ auth[1][2] # <<>>

\* a driver was opened without credentials by a configuration that has a
\* username and no password
C21_Witness ==
    \E t \in Callers :
        /\ call[t].opens = 1
        /\ call[t].args[1].auth = None
        /\ config.username = Some(<<"user">>)
        /\ config.password = None

\* the value is built from scalars, sequences and mappings only
RECURSIVE IsPlain(_)
IsPlain(value) ==
    CASE value.kind = "scalar" -> TRUE
      [] value.kind \in {"list", "tuple"} ->
            \A i \in DOMAIN value.items : IsPlain(value.items[i])
      [] value.kind = "map" -> \A k \in DOMAIN value.m : IsPlain(value.m[k])
      [] OTHER -> FALSE

\* C22: for a value built from scalars, sequences and mappings, applying the
\* function to its own result gives that result again.
C22_NormalizeIdempotent ==
    (IsPlain(norm.in) /\ Len(norm.out) >= 2) => norm.out[2] = norm.out[1]

\* the function was applied twice to a tuple that holds a list
C22_Witness ==
    /\ norm.in = TupleV(<<TupleV(<<ListV(<<Scalar("1")>>)>>)>>)
    /\ Len(norm.out) = 2
    /\ norm.out[1] = ListV(<<ListV(<<ListV(<<Scalar("1")>>)>>)>>)

\* the items of a list or tuple, in order
Items(value) == value.items

\* C23: a scalar comes back unchanged; a list or tuple comes back as a
\* sequence of the same length whose i-th item is the result for the i-th
\* item; a dict comes back with the same keys, each holding the result for
\* the value it held.
C23_PlainStructureKept ==
    (IsPlain(norm.in) /\ norm.out # <<>>) =>
        LET x == norm.in
            y == norm.out[1]
        IN  /\ x.kind = "scalar" => y = x
            /\ x.kind \in {"list", "tuple"} =>
                /\ y.kind = "list"
                /\ Len(Items(y)) = Len(Items(x))
                /\ \A i \in DOMAIN Items(x) :
                      Items(y)[i] = _serialize_neo4j_value(Items(x)[i])
            /\ x.kind = "map" =>
                /\ y.kind = "map"
                /\ DOMAIN y.m = DOMAIN x.m
                /\ \A k \in DOMAIN x.m : y.m[k] = _serialize_neo4j_value(x.m[k])
            /\ x \in FlatValues /\ x.kind \in {"list", "tuple"} => Items(y) = Items(x)
            /\ x \in FlatValues /\ x.kind = "map" => y.m = x.m

\* a tuple of two different items, one of them a tuple, was normalized
C23_Witness ==
    /\ norm.in = TupleV(<<Scalar("s"), TupleV(<<Scalar("s"), Scalar("null")>>)>>)
    /\ norm.out # <<>>
    /\ norm.out[1] = ListV(<<Scalar("s"), ListV(<<Scalar("s"), Scalar("null")>>)>>)

\* C24: a path comes back as a dict with the keys nodes and relationships;
\* the first holds as many items as the path has nodes, the second as many
\* as it has relationships, and each item is the result for the node or
\* relationship at that place of the traversal.
C24_PathSequences ==
    (norm.in.kind = "path" /\ norm.out # <<>>) =>
        LET p == norm.in
            y == norm.out[1]
        IN  /\ y.kind = "map"
            /\ DOMAIN y.m = {"nodes", "relationships"}
            /\ y.m.nodes.kind = "list"
            /\ y.m.relationships.kind = "list"
            /\ Len(Items(y.m.nodes)) = Len(p.nodes)
            /\ Len(Items(y.m.relationships)) = Len(p.relationships)
            /\ \A i \in DOMAIN p.nodes :
                  Items(y.m.nodes)[i] = MapV(EntityDict(p.nodes[i]))
            /\ \A i \in DOMAIN p.relationships :
                  Items(y.m.relationships)[i] = MapV(EntityDict(p.relationships[i]))

\* a path of two hops between different nodes was normalized
C24_Witness ==
    /\ norm.in.kind = "path"
    /\ Len(norm.in.relationships) = MaxHops
    /\ norm.in.nodes[1] # norm.in.nodes[2]
    /\ norm.in.relationships[1] # norm.in.relationships[2]
    /\ norm.out # <<>>
    /\ Len(Items(norm.out[1].m.nodes)) = MaxHops + 1

\* C25: a node or relationship comes back as a dict in which every declared
\* property key holds that property's own value; the labels, the type and the
\* identifiers never take the place of a declared property.
C25_PropertiesKept ==
    (norm.in.kind \in {"node", "rel"} /\ norm.out # <<>>) =>
        /\ norm.out[1].kind = "map"
        /\ \A k \in DOMAIN norm.in.props :
              /\ k \in DOMAIN norm.out[1].m
              /\ norm.out[1].m[k] = norm.in.props[k]

\* the message ends with the pieces of the original message, after a prefix
CarriesMessage(msg, original) ==
    /\ Len(msg) > Len(original)
    /\ SubSeq(msg, Len(msg) - Len(original) + 1, Len(msg)) = original

\* the tool call ended by returning, or by an error of the operation or of
\* obtaining the connection
ToolEnded(c) == c.tool # "none" /\ Finished(c) /\ (Failed(c) => IsException(c.error))

\* C26 as stated: each of the four query tools raises a generic error that
\* carries the original message when the operation or obtaining the connection
\* fails and otherwise returns the operation's result unchanged;
\* test_database_connection never raises and reports a failure as
\* {connected: false, error}.
C26_ToolsReturnCoreResult ==
    \A t \in Callers :
        LET c == call[t]
            o == ToolOutput(c)
        IN  ToolEnded(c) =>
                /\ (c.tool \in QueryTools /\ Failed(c)) =>
                      /\ o.kind = "raise"
                      /\ o.error.type = "RuntimeError"
                      /\ CarriesMessage(o.error.msg, c.error.msg)
                /\ (c.tool \in QueryTools /\ Succeeded(c)) =>
                      /\ o.kind = "return"
                      /\ o.value = CoreResult(c)
                /\ c.tool = "test_database_connection" =>
                      /\ o.kind = "return"
                      /\ Failed(c) =>
                            /\ o.value.connected = FALSE
                            /\ CarriesMessage(o.value.error, c.error.msg)
                      /\ Succeeded(c) => o.value = CoreResult(c)

\* C26, amended: as above, but run_cypher_query returns the operation's result
\* inside its own record, as records next to their count or as statistics.
C26_ToolsTranslateFailures ==
    \A t \in Callers :
        LET c == call[t]
            o == ToolOutput(c)
        IN  ToolEnded(c) =>
                /\ (c.tool \in QueryTools /\ Failed(c)) =>
                      /\ o.kind = "raise"
                      /\ o.error.type = "RuntimeError"
                      /\ CarriesMessage(o.error.msg, c.error.msg)
                /\ (c.tool \in QueryTools \ {"run_cypher_query"} /\ Succeeded(c)) =>
                      /\ o.kind = "return"
                      /\ o.value = CoreResult(c)
                /\ (c.tool = "run_cypher_query" /\ Succeeded(c)) =>
                      /\ o.kind = "return"
                      /\ c.op = "read" => o.value.records = CoreResult(c).records
                      /\ c.op = "write" => o.value.statistics = CoreResult(c).stats
                /\ c.tool = "test_database_connection" =>
                      /\ o.kind = "return"
                      /\ Failed(c) =>
                            /\ o.value.connected = FALSE
                            /\ CarriesMessage(o.value.error, c.error.msg)
                      /\ Succeeded(c) => o.value = CoreResult(c)

\* a query tool's operation failed at the database after the connection was
\* obtained, and the tool raised the error translated
C26_Witness ==
    \E t \in Callers :
        /\ call[t].tool \in QueryTools
        /\ call[t].op # "none"
        /\ Failed(call[t])
        /\ call[t].causeAt \in {"run", "fetch", "consume"}
        /\ ToolOutput(call[t]).kind = "raise"
        /\ ToolOutput(call[t]).error.type = "RuntimeError"

OpenDrivers == {d \in 1..nDrivers : closes[d] = 0}

\* C28: at most one driver is open at any moment, and once a close() has
\* returned with no other call in flight every driver that was ever opened
\* has been closed.
C28_NoDriverLeaked ==
    /\ Cardinality(OpenDrivers) <= 1
    /\ \A t \in Callers :
          (call[t].op = "close" /\ Succeeded(call[t])) => OpenDrivers = {}

\* C29: a get_schema that returns a snapshot was given a session for every
\* sub-query it issued: when close() has run between two of its sub-queries
\* and the next one is refused with "Not connected", get_schema raises and
\* does not return constraints or indexes emptied by that refusal.
C29_SchemaFailsWhenClosed ==
    LET c == call[Reader]
    IN  (c.op = "schema" /\ Succeeded(c)) =>
            /\ c.opened = Len(c.issued)
            /\ c.failed # {} => c.drvAtCall = driver

\* C30: whenever a tool can obtain the Connection from the lifespan context,
\* the startup connect() has returned, the Connection holds the driver it
\* checked, and the lifespan has not closed it; before the context is yielded,
\* and after a startup that failed, no tool call reaches the Connection.
C30_ContextAfterStartup ==
    /\ Serving =>
          /\ call[App].op = "connect"
          /\ Succeeded(call[App])
          /\ is_connected
          /\ driver \in verified
          /\ closes[driver] = 0
          /\ call[App].finals = 0
    /\ (call[App].life \in {"init", "connecting"} \/ call[App].exit = "startup_failed") =>
          \A t \in Callers : call[t].op = "none" /\ call[t].opened = 0

\* the context was yielded and a tool call made through it has returned
C30_Witness ==
    /\ Serving
    /\ \E t \in Callers :
          /\ call[t].tool # "none"
          /\ call[t].op # "none"
          /\ Succeeded(call[t])

====
